---- MODULE Spec2Model ----
(***************************************************************************)
(* Model of the currency converter core (src/app.py): the module-level     *)
(* table FALLBACK_RATES, supported_currencies(), get_rates() and convert().*)
(*                                                                         *)
(* Numbers are exact rationals [kind, n, d] (d > 0, lowest terms); kind    *)
(* tells a Python int from a float and None from both.  Floating-point     *)
(* rounding is not modelled: every property about amounts is a property of *)
(* exact arithmetic.  Currency codes are sequences of ASCII codes so that  *)
(* str.upper() is computed, not assumed.                                   *)
(***************************************************************************)
EXTENDS Integers, Sequences, FiniteSets, TLC

VARIABLES FALLBACK_RATES, requests, rates, last, prev

vars == <<FALLBACK_RATES, requests, rates, last, prev>>

----------------------------------------------------------------------------
(* Numbers *)

Abs(x) == IF x < 0 THEN -x ELSE x

RECURSIVE GCD(_, _)
GCD(a, b) == IF b = 0 THEN a ELSE GCD(b, a % b)

Norm(k, n, d) ==
    LET g == GCD(Abs(n), Abs(d))
        s == IF d < 0 THEN -1 ELSE 1
    IN  [kind |-> k, n |-> s * (n \div g), d |-> s * (d \div g)]

None == [kind |-> "none", n |-> 0, d |-> 1]
IntNum(i) == [kind |-> "int", n |-> i, d |-> 1]
Float(n, d) == Norm("float", n, d)

\* float(x) on an int or a float: the same value, as a float
float(x) == [kind |-> "float", n |-> x.n, d |-> x.d]

\* float / float and float * float (the divisor is not zero)
Div(x, y) == Norm("float", x.n * y.d, x.d * y.n)
Mul(x, y) == Norm("float", x.n * y.n, x.d * y.d)

----------------------------------------------------------------------------
(* Currency codes *)

UpperChar(c) == IF c \in 97..122 THEN c - 32 ELSE c
upper(s) == [i \in 1..Len(s) |-> UpperChar(s[i])]

USD == <<85, 83, 68>>
EUR == <<69, 85, 82>>
GBP == <<71, 66, 80>>
JPY == <<74, 80, 89>>
INR == <<73, 78, 82>>
CAD == <<67, 65, 68>>
AUD == <<65, 85, 68>>
XXX == <<88, 88, 88>>
usd == <<117, 115, 100>>
eur == <<101, 117, 114>>

\* str < str: lexicographic on code points
RECURSIVE StrLess(_, _)
StrLess(s, t) ==
    IF t = << >> THEN FALSE
    ELSE IF s = << >> THEN TRUE
    ELSE IF Head(s) # Head(t) THEN Head(s) < Head(t)
    ELSE StrLess(Tail(s), Tail(t))

RECURSIVE sorted(_)
sorted(S) ==
    IF S = {} THEN << >>
    ELSE LET m == CHOOSE x \in S : \A y \in S \ {x} : StrLess(x, y)
         IN  <<m>> \o sorted(S \ {m})

----------------------------------------------------------------------------
(* Module state *)

FallbackTable ==
    (USD :> Float(1, 1)) @@ (EUR :> Float(92, 100)) @@ (GBP :> Float(80, 100)) @@
    (JPY :> Float(150, 1)) @@ (INR :> Float(83, 1)) @@ (CAD :> Float(135, 100)) @@
    (AUD :> Float(155, 100))

EmptyTable == [c \in {} |-> None]

\* Results of a call
Return(v) == [kind |-> "return", val |-> v, tbl |-> EmptyTable, seq |-> << >>]
ReturnTable(t) == [kind |-> "return", val |-> None, tbl |-> t, seq |-> << >>]
ReturnSeq(s) == [kind |-> "return", val |-> None, tbl |-> EmptyTable, seq |-> s]
Raise(e) == [kind |-> e, val |-> None, tbl |-> EmptyTable, seq |-> << >>]

----------------------------------------------------------------------------
(* supported_currencies *)

InsertionOrder == <<USD, EUR, GBP, JPY, INR, CAD, AUD>>

\* the keys in the order the table literal lists them, not sorted
supported_currencies_unsorted ==
    ReturnSeq(SelectSeq(InsertionOrder, LAMBDA c : c \in DOMAIN FALLBACK_RATES))

supported_currencies == ReturnSeq(sorted(DOMAIN FALLBACK_RATES))

----------------------------------------------------------------------------
(* get_rates *)

HTTP_OK == 200

\* a JSON value is coercible by float() when it is a number or a numeric string
Coercible(v) == v.kind \in {"int", "float", "numstr"}

\* {k.upper(): float(v) for k, v in rates.items()}: a later item overrides an
\* earlier one with the same uppercased key; float(v) raises on any other value
RECURSIVE DictComp(_)
DictComp(items) ==
    IF items = << >> THEN EmptyTable
    ELSE LET it == items[Len(items)]
         IN  (upper(it.key) :> float(it.value)) @@ DictComp(SubSeq(items, 1, Len(items) - 1))

\* the try block, lines 42-48: what the live retrieval yields
LiveFetch(live) ==
    IF live.exc THEN [kind |-> "raise", tbl |-> EmptyTable]                \* requests.get raises
    ELSE IF live.status # HTTP_OK THEN [kind |-> "fallthrough", tbl |-> EmptyTable]
    ELSE IF live.body = "notjson" THEN [kind |-> "raise", tbl |-> EmptyTable]   \* resp.json() raises
    ELSE IF live.body = "array" THEN [kind |-> "raise", tbl |-> EmptyTable]     \* no .get on a list
    ELSE IF live.field # "dict" \/ live.payload = << >>
         THEN [kind |-> "fallthrough", tbl |-> EmptyTable]
    ELSE IF \E i \in 1..Len(live.payload) : ~Coercible(live.payload[i].value)
         THEN [kind |-> "raise", tbl |-> EmptyTable]                        \* float(v) raises
    ELSE [kind |-> "return", tbl |-> DictComp(live.payload)]

\* the fallback always measured against USD, whatever the base
FallbackUsdOnly(base) ==
    LET base_rate == FALLBACK_RATES[USD]
    IN  [k \in DOMAIN FALLBACK_RATES |-> Div(FALLBACK_RATES[k], base_rate)]

\* lines 54-59; base is already uppercased
Fallback(base) ==
    LET base_rate == IF base \in DOMAIN FALLBACK_RATES
                     THEN FALLBACK_RATES[base]
                     ELSE FALLBACK_RATES[USD]
    IN  [k \in DOMAIN FALLBACK_RATES |-> Div(FALLBACK_RATES[k], base_rate)]

\* get_rates with no except clause around the retrieval
get_rates_uncaught(base, live) ==
    LET b == upper(base)
        fetched == IF requests # "None" THEN LiveFetch(live)
                   ELSE [kind |-> "fallthrough", tbl |-> EmptyTable]
    IN  IF fetched.kind = "return" THEN ReturnTable(fetched.tbl)
        ELSE IF fetched.kind = "raise" THEN Raise("Exception")
        ELSE ReturnTable(Fallback(b))

get_rates(base, live) ==
    LET b == upper(base)
        fetched == IF requests # "None" THEN LiveFetch(live)
                   ELSE [kind |-> "fallthrough", tbl |-> EmptyTable]
    IN  IF fetched.kind = "return" THEN ReturnTable(fetched.tbl)
        ELSE ReturnTable(Fallback(b))          \* "raise" is caught and ignored

----------------------------------------------------------------------------
(* convert *)

\* convert that compares and looks up the codes as given, without upper()
convert_no_upper(amount, from_currency, to_currency, table) ==
    IF amount = None THEN Return(Float(0, 1))
    ELSE IF from_currency = to_currency THEN Return(float(amount))
    ELSE IF from_currency \notin DOMAIN table \/ to_currency \notin DOMAIN table
         THEN Raise("ValueError")
    ELSE IF float(table[from_currency]).n = 0 THEN Raise("ZeroDivisionError")
    ELSE Return(Mul(Div(float(amount), float(table[from_currency])),
                    float(table[to_currency])))

\* convert that multiplies by the source rate and divides by the target rate
convert_swapped(amount, from_currency, to_currency, table) ==
    IF amount = None THEN Return(Float(0, 1))
    ELSE LET f == upper(from_currency)
             t == upper(to_currency)
         IN  IF f = t THEN Return(float(amount))
             ELSE IF f \notin DOMAIN table \/ t \notin DOMAIN table
                  THEN Raise("ValueError")
             ELSE IF float(table[t]).n = 0 THEN Raise("ZeroDivisionError")
             ELSE Return(Div(Mul(float(amount), float(table[f])), float(table[t])))

\* convert that only checks the source code against the table
convert_from_only(amount, from_currency, to_currency, table) ==
    IF amount = None THEN Return(Float(0, 1))
    ELSE LET f == upper(from_currency)
             t == upper(to_currency)
         IN  IF f = t THEN Return(float(amount))
             ELSE IF f \notin DOMAIN table THEN Raise("ValueError")
             ELSE IF float(table[f]).n = 0 THEN Raise("ZeroDivisionError")
             ELSE IF t \notin DOMAIN table THEN Return(Float(0, 1))
             ELSE Return(Mul(Div(float(amount), float(table[f])), float(table[t])))

\* convert that coerces None to 0 and then goes on like any amount
convert_none_as_zero(amount, from_currency, to_currency, table) ==
    LET a == IF amount = None THEN Float(0, 1) ELSE amount
        f == upper(from_currency)
        t == upper(to_currency)
    IN  IF f = t THEN Return(float(a))
        ELSE IF f \notin DOMAIN table \/ t \notin DOMAIN table
             THEN Raise("ValueError")
        ELSE IF float(table[f]).n = 0 THEN Raise("ZeroDivisionError")
        ELSE Return(Mul(Div(float(a), float(table[f])), float(table[t])))

\* convert that takes the source currency for the base: no division
convert_no_base(amount, from_currency, to_currency, table) ==
    IF amount = None THEN Return(Float(0, 1))
    ELSE LET f == upper(from_currency)
             t == upper(to_currency)
         IN  IF f = t THEN Return(float(amount))
             ELSE IF f \notin DOMAIN table \/ t \notin DOMAIN table
                  THEN Raise("ValueError")
             ELSE IF float(table[f]).n = 0 THEN Raise("ZeroDivisionError")
             ELSE Return(Mul(float(amount), float(table[t])))

\* lines 67-77
convert(amount, from_currency, to_currency, table) ==
    IF amount = None THEN Return(Float(0, 1))
    ELSE LET f == upper(from_currency)
             t == upper(to_currency)
         IN  IF f = t THEN Return(float(amount))
             ELSE IF f \notin DOMAIN table \/ t \notin DOMAIN table
                  THEN Raise("ValueError")            \* "Unsupported currency"
             \* float / float raises when the divisor is 0.0
             ELSE IF float(table[f]).n = 0 THEN Raise("ZeroDivisionError")
             ELSE Return(Mul(Div(float(amount), float(table[f])), float(table[t])))

----------------------------------------------------------------------------
(* Inputs *)

Amounts == {None, IntNum(0), IntNum(100), IntNum(90), Float(-5, 2)}

Codes == {USD, EUR, GBP, XXX, usd}

Bases == {USD, EUR, eur, XXX}

\* the tables of the tests
TestRates == (USD :> Float(1, 1)) @@ (EUR :> Float(9, 10)) @@ (GBP :> Float(8, 10))
UsdOnlyRates == (USD :> Float(1, 1))

CallerTables == {TestRates, UsdOnlyRates}

Item(k, v) == [key |-> k, value |-> v]
NumStr(n, d) == Norm("numstr", n, d)
BadValue == [kind |-> "bad", n |-> 0, d |-> 1]

\* the `rates` member of a response body, as its list of items
Payloads ==
    { << >>,
      <<Item(usd, Float(1, 1)), Item(eur, NumStr(9, 10))>>,
      <<Item(USD, IntNum(1)), Item(EUR, IntNum(0)), Item(GBP, Float(4, 5))>>,
      <<Item(USD, IntNum(1)), Item(EUR, BadValue)>>,
      <<Item(eur, Float(1, 2)), Item(EUR, Float(9, 10)), Item(USD, IntNum(1))>> }

Live(e, s, b, f, p) == [exc |-> e, status |-> s, body |-> b, field |-> f, payload |-> p]

NoLive == Live(TRUE, 0, "none", "none", << >>)

\* what the network can answer to the one GET of get_rates
LiveOutcomes ==
    { Live(TRUE, 0, "none", "none", << >>) } \cup
    { Live(FALSE, s, "notjson", "none", << >>) : s \in {200, 500} } \cup
    { Live(FALSE, s, "array", "none", << >>) : s \in {200, 500} } \cup
    { Live(FALSE, s, "object", f, << >>) : s \in {200, 500}, f \in {"missing", "notdict"} } \cup
    { Live(FALSE, s, "object", "dict", p) : s \in {200, 500}, p \in Payloads }

Call(o, a, f, t, tb, b, l, bk, res) ==
    [op |-> o, amount |-> a, from |-> f, to |-> t, table |-> tb, base |-> b,
     live |-> l, back |-> bk, out |-> res]

NoCall == Call("none", None, << >>, << >>, EmptyTable, << >>, NoLive, FALSE, Raise("none"))

----------------------------------------------------------------------------
(* Behaviour: the calls a presentation layer or a test makes, one at a time *)

Init ==
    /\ FALLBACK_RATES = FallbackTable
    /\ requests \in {"module", "None"}       \* the import guard, lines 12-15
    /\ rates = EmptyTable
    /\ last = NoCall
    /\ prev = NoCall

SupportedCurrencies ==
    /\ last' = Call("supported_currencies", None, << >>, << >>, EmptyTable, << >>,
                    NoLive, FALSE, supported_currencies)
    /\ prev' = NoCall
    /\ UNCHANGED <<FALLBACK_RATES, requests, rates>>

\* rates = get_rates(base): the caller keeps the table it is given
GetRates(base, live) ==
    LET res == get_rates(base, live)
    IN  /\ last' = Call("get_rates", None, << >>, << >>, EmptyTable, base, live, FALSE, res)
        /\ rates' = IF res.kind = "return" THEN res.tbl ELSE rates
        /\ prev' = NoCall
        /\ UNCHANGED <<FALLBACK_RATES, requests>>

Convert(amount, from_currency, to_currency, table) ==
    /\ last' = Call("convert", amount, from_currency, to_currency, table, << >>, NoLive,
                    FALSE, convert(amount, from_currency, to_currency, table))
    /\ prev' = NoCall
    /\ UNCHANGED <<FALLBACK_RATES, requests, rates>>

\* the amount a conversion returned is converted back with the same table
ConvertBack ==
    /\ last.op = "convert"
    /\ ~last.back
    /\ last.out.kind = "return"
    /\ last' = Call("convert", last.out.val, last.to, last.from, last.table, << >>, NoLive,
                    TRUE, convert(last.out.val, last.to, last.from, last.table))
    /\ prev' = last
    /\ UNCHANGED <<FALLBACK_RATES, requests, rates>>

Next ==
    \/ SupportedCurrencies
    \/ \E base \in Bases, live \in LiveOutcomes : GetRates(base, live)
    \/ \E a \in Amounts, f \in Codes, t \in Codes, tb \in CallerTables \cup {rates} :
          Convert(a, f, t, tb)
    \/ ConvertBack

Spec == Init /\ [][Next]_vars

----------------------------------------------------------------------------
(* Properties *)

IsConvert == last.op = "convert"
IsGetRates == last.op = "get_rates"
UF == upper(last.from)
UT == upper(last.to)

\* value equality of two rationals, by cross-multiplication
SameValue(x, y) == x.n * y.d = y.n * x.d

\* C1: for a non-null amount a and uppercased codes F # T that are both keys
\* of the table R (R[F] not zero, so that a / R[F] exists), convert returns
\* exactly (a / R[F]) * R[T], unrounded; with the table of the tests
\* 100 USD is 90 EUR and 90 EUR is 80 GBP.
C1_ConvertIsLinear ==
    (IsConvert /\ last.amount # None /\ UF # UT
       /\ UF \in DOMAIN last.table /\ UT \in DOMAIN last.table
       /\ last.table[UF].n # 0)
    => /\ last.out.kind = "return"
       /\ last.out.val.kind = "float"
       /\ last.out.val.n * (last.amount.d * last.table[UF].n * last.table[UT].d)
            = (last.amount.n * last.table[UF].d * last.table[UT].n) * last.out.val.d
       /\ (last.table = TestRates /\ last.amount = IntNum(100) /\ UF = USD /\ UT = EUR)
            => SameValue(last.out.val, IntNum(90))
       /\ (last.table = TestRates /\ last.amount = IntNum(90) /\ UF = EUR /\ UT = GBP)
            => SameValue(last.out.val, IntNum(80))

C1_Witness ==
    /\ IsConvert /\ ~last.back
    /\ last.amount = IntNum(90) /\ last.from = EUR /\ last.to = GBP
    /\ last.table = TestRates
    /\ last.out = Return(Float(80, 1))

\* C2: when the two codes are equal after uppercasing, convert returns the
\* non-null amount unchanged, as a float, and raises nothing, whether or not
\* the code is a key of the table and whatever rate the table holds for it.
C2_IdentityReturnsAmount ==
    (IsConvert /\ last.amount # None /\ UF = UT)
    => /\ last.out.kind = "return"
       /\ last.out.val.kind = "float"
       /\ last.out.val.n = last.amount.n
       /\ last.out.val.d = last.amount.d

C2_Witness ==
    /\ IsConvert /\ ~last.back
    /\ last.from = usd /\ last.to = USD
    /\ USD \notin DOMAIN last.table
    /\ last.amount = IntNum(100)
    /\ last.out = Return(Float(100, 1))

LiveFailed ==
    \/ requests = "None"
    \/ last.live.exc
    \/ last.live.status # 200
    \/ last.live.body # "object"
    \/ last.live.field # "dict"
    \/ last.live.payload = << >>
    \/ \E i \in 1..Len(last.live.payload) :
          last.live.payload[i].value.kind \notin {"int", "float", "numstr"}

\* the rate of FALLBACK_RATES that the fallback divides by
Reference(b) == IF b \in DOMAIN FALLBACK_RATES THEN FALLBACK_RATES[b] ELSE FALLBACK_RATES[USD]

\* C4: get_rates never raises: whatever the live retrieval yields it returns
\* a table whose every entry is a float, and when the retrieval failed the
\* table is the one computed from FALLBACK_RATES.
C4_GetRatesNeverRaises ==
    IsGetRates
    => /\ last.out.kind = "return"
       /\ \A c \in DOMAIN last.out.tbl :
             last.out.tbl[c].kind = "float" /\ last.out.tbl[c].d > 0
       /\ LiveFailed
            => /\ DOMAIN last.out.tbl = DOMAIN FALLBACK_RATES
               /\ \A c \in DOMAIN FALLBACK_RATES :
                     LET ref == Reference(upper(last.base))
                     IN  last.out.tbl[c].n * ref.n * FALLBACK_RATES[c].d
                           = FALLBACK_RATES[c].n * ref.d * last.out.tbl[c].d

C4_Witness ==
    /\ IsGetRates
    /\ requests = "module"
    /\ ~last.live.exc /\ last.live.status = 200 /\ last.live.field = "dict"
    /\ \E i \in 1..Len(last.live.payload) : last.live.payload[i].value.kind = "bad"
    /\ last.out.kind = "return"
    /\ last.out.tbl[JPY] = Float(150, 1)

\* C5: on the fallback path with a base that is a key of FALLBACK_RATES
\* (after uppercasing), the table returned has exactly the keys of
\* FALLBACK_RATES, each rate is FALLBACK_RATES[c] / FALLBACK_RATES[base],
\* and the rate of the base is 1.0.
C5_FallbackRelativeToBase ==
    (IsGetRates /\ LiveFailed /\ upper(last.base) \in DOMAIN FALLBACK_RATES)
    => LET b == upper(last.base)
       IN  /\ last.out.kind = "return"
           /\ DOMAIN last.out.tbl = {USD, EUR, GBP, JPY, INR, CAD, AUD}
           /\ \A c \in DOMAIN last.out.tbl :
                 last.out.tbl[c].n * FALLBACK_RATES[b].n * FALLBACK_RATES[c].d
                   = FALLBACK_RATES[c].n * FALLBACK_RATES[b].d * last.out.tbl[c].d
           /\ last.out.tbl[b] = Float(1, 1)

C5_Witness ==
    /\ IsGetRates /\ LiveFailed
    /\ last.base = eur
    /\ last.out.kind = "return"
    /\ last.out.tbl[EUR] = Float(1, 1)
    /\ last.out.tbl[USD] = Float(25, 23)

\* C6: every call of supported_currencies, get_rates and convert either
\* returns a value or fails with the unsupported-currency error.
C6_OnlyUnsupportedEscapes ==
    last.op # "none" => last.out.kind \in {"return", "ValueError"}

\* C7 as stated: for every amount a and codes X, Y that are keys of the
\* table, converting a from X to Y and the result back from Y to X returns a.
C7_RoundTripEveryAmount ==
    (IsConvert /\ last.back
       /\ upper(prev.from) \in DOMAIN prev.table /\ upper(prev.to) \in DOMAIN prev.table)
    => /\ last.out.kind = "return"
       /\ last.out.val.kind # "none" /\ prev.amount.kind # "none"
       /\ SameValue(last.out.val, prev.amount)

\* C7 amended: for every non-null amount a and codes X, Y that are keys of
\* the table with rates that are not zero, converting a from X to Y and the
\* result back from Y to X returns exactly a.
C7_RoundTripNonNull ==
    (IsConvert /\ last.back /\ prev.amount # None
       /\ upper(prev.from) \in DOMAIN prev.table /\ upper(prev.to) \in DOMAIN prev.table
       /\ prev.table[upper(prev.from)].n # 0 /\ prev.table[upper(prev.to)].n # 0)
    => /\ last.table = prev.table
       /\ last.amount = prev.out.val /\ last.from = prev.to /\ last.to = prev.from
       /\ last.out.kind = "return"
       /\ last.out.val.n = prev.amount.n
       /\ last.out.val.d = prev.amount.d

C7_Witness ==
    /\ IsConvert /\ last.back
    /\ prev.amount = Float(-5, 2) /\ prev.from = EUR /\ prev.to = GBP
    /\ prev.table = TestRates
    /\ prev.out = Return(Float(-20, 9))
    /\ last.out = Return(Float(-5, 2))

\* C8: supported_currencies returns the seven keys of FALLBACK_RATES, each
\* once, in ascending order, the same sequence on every call, whatever calls
\* came before.
C8_SupportedCurrenciesSorted ==
    last.op = "supported_currencies"
    => /\ last.out.kind = "return"
       /\ last.out.seq = <<AUD, CAD, EUR, GBP, INR, JPY, USD>>
       /\ {last.out.seq[i] : i \in 1..Len(last.out.seq)} = DOMAIN FALLBACK_RATES
       /\ Len(last.out.seq) = Cardinality(DOMAIN FALLBACK_RATES)
       /\ \A i \in 1..(Len(last.out.seq) - 1) :
             StrLess(last.out.seq[i], last.out.seq[i + 1])
       /\ FALLBACK_RATES = FallbackTable

C8_Witness ==
    /\ last.op = "supported_currencies"
    /\ rates # EmptyTable /\ EUR \in DOMAIN rates /\ rates[EUR].n = 0
    /\ Len(last.out.seq) = 7
    /\ last.out.seq[1] = AUD /\ last.out.seq[7] = USD

C10_UnknownBaseRelativeToBase ==
    (IsGetRates /\ LiveFailed /\ upper(last.base) \notin DOMAIN FALLBACK_RATES)
    => /\ last.out.kind = "return"
       /\ \A c \in DOMAIN FALLBACK_RATES :
             SameValue(Mul(last.out.tbl[c], FALLBACK_RATES[USD]), FALLBACK_RATES[c])
       /\ upper(last.base) \in DOMAIN last.out.tbl
       /\ last.out.tbl[upper(last.base)] = Float(1, 1)
       /\ \A t \in DOMAIN last.out.tbl :
             convert(IntNum(100), last.base, t, last.out.tbl).kind = "return"

====
